---------------------------- MODULE Spec2Model ----------------------------
(***************************************************************************)
(* State-machine model of the Wikipedia dump cleaning pipeline:            *)
(*   parser.py    WikiXMLParser      (streaming decoder)                   *)
(*   cleaner.py   TextCleaner        (markup stripper and quality gates)   *)
(*   formatter.py JSONLFormatter     (record sink and output validation)   *)
(*   main.py      WikipediaProcessor (the pull-based pipeline)             *)
(*                                                                         *)
(* A Python str is a sequence of Unicode code points (naturals).  None is  *)
(* the model value NoneVal.  A dict is a function whose DOMAIN is its key  *)
(* set.                                                                    *)
(***************************************************************************)
EXTENDS Integers, Sequences, FiniteSets, TLC

VARIABLES
    \* ---- parser.py: the generator frame of parse_dump
    current_page,   \* the per-page accumulator (dict tag -> element text)
    gen,            \* where the generator is: "run", "yield", "done", "raised"
    item,           \* the dict handed to the consumer at a yield
    \* ---- the input stream read so far (environment, not program state)
    elems,          \* field elements closed inside the page being read
    pageNo,         \* pages closed so far
    prevOut,        \* what happened to the previous page
    prevIdTs,       \* did the previous page carry an id and a timestamp
    \* ---- cleaner.py: one call of a TextCleaner method
    case,           \* how the argument was put together (environment)
    input,          \* the str argument: a paragraph or an article's markup
    call,           \* "pending" before the call, "returned" after it
    output,         \* what the call returned
    \* ---- main.py: one run of process_dump (with formatter.write_record)
    dump,             \* the pages of the dump file, by kind (environment)
    max_articles,     \* the argument; 0 stands for the falsy None and 0
    pos,              \* pages of the dump the decoder has read
    pc,               \* where process_dump is
    cur,              \* the page of the current page_data
    processed_count,  \* local of process_dump
    written_count,    \* local of process_dump
    stats,            \* JSONLFormatter.stats
    out_file,         \* the lines of the output file
    buf,              \* what the open file object holds, not yet in the file
    outcome,          \* how the loop of process_dump ended
    ret,              \* what process_dump returned
    \* ---- main.py: one run of main
    args_process,     \* args.process, the --process option (environment)
    exit_status,      \* the exit status of the process: 0 unless sys.exit(1)
    \* ---- formatter.py: one call of validate_output_file
    file_len,         \* the number of lines of the file (environment)
    vpc,              \* where validate_output_file is
    line_num,         \* lines read so far
    validation_stats  \* the dict validate_output_file builds and returns

parserVars == <<current_page, gen, item, elems, pageNo, prevOut, prevIdTs>>
cleanerVars == <<case, input, call, output>>
runVars == <<dump, max_articles, pos, pc, cur, processed_count, written_count,
             stats, out_file, buf, outcome, ret>>
validateVars == <<file_len, vpc, line_num, validation_stats>>
mainVars == <<args_process, exit_status>>

vars == <<parserVars, cleanerVars, runVars, validateVars, mainVars>>

notParserVars == <<cleanerVars, runVars, validateVars, mainVars>>
notCleanerVars == <<parserVars, runVars, validateVars, mainVars>>
notRunVars == <<parserVars, cleanerVars, validateVars, mainVars>>
notValidateVars == <<parserVars, cleanerVars, runVars, mainVars>>

(***************************************************************************)
(* Bounds of the model.                                                    *)
(***************************************************************************)
MaxPages == 2
MaxElems == 4

(***************************************************************************)
(* Python str helpers.                                                     *)
(***************************************************************************)
\* A str object is named by a handle; Str(h) is its content.  None is the
\* handle NoneVal, the empty str '' the handle EmptyStr.
NoneVal == "None"
EmptyStr == ""

SetMin(S) == CHOOSE x \in S : \A y \in S : x <= y
SetMax(S) == CHOOSE x \in S : \A y \in S : x >= y

\* str.isspace() of one code point
IsSpace(c) ==
    \/ c = 32
    \/ c >= 9 /\ c <= 13
    \/ c >= 28 /\ c <= 31
    \/ c >= 8192 /\ c <= 8202
    \/ c \in {133, 160, 5760, 8232, 8233, 8239, 8287, 12288}

IsAsciiUpper(c) == c >= 65 /\ c <= 90
IsAsciiLower(c) == c >= 97 /\ c <= 122
IsAsciiLetter(c) == IsAsciiUpper(c) \/ IsAsciiLower(c)
IsDigit(c) == c >= 48 /\ c <= 57

\* str.lower(), on the code points the model uses (ASCII letters are the
\* only cased ones among them)
LowerChar(c) == IF IsAsciiUpper(c) THEN c + 32 ELSE c
Lower(s) == [i \in 1..Len(s) |-> LowerChar(s[i])]

\* str.strip()
Strip(s) ==
    LET n == Len(s)
    IN  IF \A i \in 1..n : IsSpace(s[i]) THEN <<>>
        ELSE SubSeq(s,
                 CHOOSE i \in 1..n :
                     ~IsSpace(s[i]) /\ \A j \in 1..(i - 1) : IsSpace(s[j]),
                 n - CHOOSE k \in 0..(n - 1) :
                         ~IsSpace(s[n - k]) /\
                         \A j \in 0..(k - 1) : IsSpace(s[n - j]))

\* s[i:].startswith(p), i counted from 1
MatchAt(s, i, p) ==
    /\ i >= 1
    /\ i + Len(p) - 1 <= Len(s)
    /\ \A k \in 1..Len(p) : s[i + k - 1] = p[k]

StartsWith(s, p) == MatchAt(s, 1, p)

\* p in s
Contains(s, p) == \E i \in 1..(Len(s) - Len(p) + 1) : MatchAt(s, i, p)

\* ch * n
Rep(c, n) == [i \in 1..n |-> c]

\* dict.get(key, default)
Get(d, key, default) == IF key \in DOMAIN d THEN d[key] ELSE default

EmptyDict == [k \in {} |-> NoneVal]

\* d[key] = value
Put(d, key, value) ==
    [k \in DOMAIN d \cup {key} |-> IF k = key THEN value ELSE d[k]]

(***************************************************************************)
(* The str objects of the input streams.                                   *)
(***************************************************************************)
Str(h) ==
    CASE h = EmptyStr -> <<>>
      \* titles
      [] h = "t_cn"    -> <<20013, 22269>>                      \* 中国
      [] h = "t_cn2"   -> <<22269, 20013>>                      \* 国中
      [] h = "t_talk"  -> <<84, 97, 108, 107, 58, 20013, 22269>> \* Talk:中国
      [] h = "t_fenlei" -> <<20998, 31867, 58, 20013, 22269>>   \* 分类:中国
      [] h = "t_geo"   -> <<22320, 29702, 58, 20013, 22269>>    \* 地理:中国
      [] h = "t_lctalk" -> <<116, 97, 108, 107, 58, 20013, 22269>> \* talk:中国
      [] h = "t_dis"   -> <<20013, 22269, 32, 40, 68, 105, 115, 97, 109, 98,
                            105, 103, 117, 97, 116, 105, 111, 110, 41>>
                                                   \* 中国 (Disambiguation)
      [] h = "t_xqy"   -> <<20013, 22269, 32, 40, 28040, 27495, 20041, 41>>
                                                   \* 中国 (消歧义)
      \* revision texts
      [] h = "x_a"     -> Rep(20013, 200)
      [] h = "x_b"     -> Rep(22269, 200)
      [] h = "x_199"   -> Rep(20013, 199)
      [] h = "x_pad"   -> <<32, 10>> \o Rep(20013, 199) \o <<10, 32>>
      [] h = "x_pad200" -> <<32, 10>> \o Rep(20013, 200) \o <<10>>
      [] h = "x_redir" -> <<35, 82, 69, 68, 73, 82, 69, 67, 84, 32, 91, 91,
                            20013, 22269, 93, 93>> \o Rep(20013, 200)
                                                   \* #REDIRECT [[中国]]...
      [] h = "x_cdx"   -> <<32, 10, 35, 37325, 23450, 21521, 32, 91, 91,
                            20013, 22269, 93, 93>> \o Rep(20013, 200)
                                                   \* ' \n#重定向 [[中国]]...'
      [] h = "x_lcredir" -> <<35, 114, 101, 100, 105, 114, 101, 99, 116, 32>>
                            \o Rep(20013, 200)  \* #redirect ...
      [] h = "x_blank" -> Rep(32, 210)
      \* page, revision and contributor ids, timestamps
      [] h = "i_1"     -> <<49>>
      [] h = "i_2"     -> <<50>>
      [] h = "s_1"     -> <<50, 48, 50, 53, 45, 48, 49>>        \* 2025-01
      [] h = "s_2"     -> <<50, 48, 50, 53, 45, 48, 50>>        \* 2025-02

\* not x, for x a str or None
Falsy(h) == h = NoneVal \/ Str(h) = <<>>

(***************************************************************************)
(* Regular expressions of cleaner.py, on the code points the model uses:   *)
(* ASCII, the CJK ideographs U+4E00..U+9FFF and CJK punctuation.           *)
(***************************************************************************)
\* [\u4e00-\u9fff]
IsCJK(c) == c >= 19968 /\ c <= 40959

\* \w (Unicode): letters, digits and the underscore
IsWordChar(c) == IsAsciiLetter(c) \/ IsDigit(c) \/ c = 95 \/ IsCJK(c)

\* \s (Unicode White_Space)
IsReSpace(c) ==
    \/ c = 32
    \/ c >= 9 /\ c <= 13
    \/ c >= 8192 /\ c <= 8202
    \/ c \in {133, 160, 5760, 8232, 8233, 8239, 8287, 12288}

\* a local variable: F applied to the value of v, v being evaluated once
Bind(v, F(_)) == CHOOSE r \in {F(x) : x \in {v}} : TRUE

\* the first index k >= from with P(s[k]), or Len(s) + 1
FirstWhere(s, from, P(_)) ==
    IF \E k \in from..Len(s) : P(s[k])
    THEN CHOOSE k \in from..Len(s) :
             P(s[k]) /\ \A j \in from..(k - 1) : ~P(s[j])
    ELSE Len(s) + 1

\* IGNORECASE literal at index i; lit is in lower case
MatchAtCI(s, i, lit) ==
    /\ i >= 1
    /\ i + Len(lit) - 1 <= Len(s)
    /\ \A k \in 1..Len(lit) : LowerChar(s[i + k - 1]) = lit[k]

\* the first index k >= from where lit occurs, or 0
FirstLit(s, from, lit) ==
    IF \E k \in from..(Len(s) - Len(lit) + 1) : MatchAt(s, k, lit)
    THEN CHOOSE k \in from..(Len(s) - Len(lit) + 1) :
             MatchAt(s, k, lit) /\ \A j \in from..(k - 1) : ~MatchAt(s, j, lit)
    ELSE 0

FirstLitCI(s, from, lit) ==
    IF \E k \in from..(Len(s) - Len(lit) + 1) : MatchAtCI(s, k, lit)
    THEN CHOOSE k \in from..(Len(s) - Len(lit) + 1) :
             MatchAtCI(s, k, lit) /\ \A j \in from..(k - 1) : ~MatchAtCI(s, j, lit)
    ELSE 0

\* \b at index i (between s[i-1] and s[i])
WordBoundary(s, i) ==
    (i > 1 /\ i - 1 <= Len(s) /\ IsWordChar(s[i - 1]))
        # (i >= 1 /\ i <= Len(s) /\ IsWordChar(s[i]))

\* <ref[^>]*>.*?</ref>   DOTALL | IGNORECASE
Match_wiki_refs(s, i) ==
    IF ~MatchAtCI(s, i, <<60, 114, 101, 102>>) THEN 0
    ELSE LET gt == FirstWhere(s, i + 4, LAMBDA c : c = 62)
             close == FirstLitCI(s, gt + 1, <<60, 47, 114, 101, 102, 62>>)
         IN  IF gt > Len(s) \/ close = 0 THEN 0 ELSE close + 6

\* <!--.*?-->   DOTALL
Match_wiki_comments(s, i) ==
    IF ~MatchAt(s, i, <<60, 33, 45, 45>>) THEN 0
    ELSE LET close == FirstLit(s, i + 4, <<45, 45, 62>>)
         IN  IF close = 0 THEN 0 ELSE close + 3

\* \[\[<name>:[^\]]+\]\]   IGNORECASE, open is '[[<name>:' in lower case
MatchLink(s, i, open) ==
    IF ~MatchAtCI(s, i, open) THEN 0
    ELSE LET from == i + Len(open)
             rb == FirstWhere(s, from, LAMBDA c : c = 93)
         IN  IF rb > from /\ rb + 1 <= Len(s) /\ s[rb + 1] = 93
             THEN rb + 2 ELSE 0

\* <open>[^}]*\}\}   DOTALL | IGNORECASE, open in lower case
MatchBraces(s, i, open) ==
    IF ~MatchAtCI(s, i, open) THEN 0
    ELSE LET rb == FirstWhere(s, i + Len(open), LAMBDA c : c = 125)
         IN  IF rb + 1 <= Len(s) /\ s[rb + 1] = 125 THEN rb + 2 ELSE 0

\* \{\|.*?\|\}   DOTALL
Match_tables(s, i) ==
    IF ~MatchAt(s, i, <<123, 124>>) THEN 0
    ELSE LET close == FirstLit(s, i + 2, <<124, 125>>)
         IN  IF close = 0 THEN 0 ELSE close + 2

\* https?://\S+   IGNORECASE
Match_urls(s, i) ==
    IF ~MatchAtCI(s, i, <<104, 116, 116, 112>>) THEN 0
    ELSE LET body == IF MatchAtCI(s, i + 4, <<115, 58, 47, 47>>) THEN i + 8
                     ELSE IF MatchAt(s, i + 4, <<58, 47, 47>>) THEN i + 7
                     ELSE 0
             stop == FirstWhere(s, body, IsReSpace)
         IN  IF body = 0 \/ stop = body THEN 0 ELSE stop

\* \b[A-Za-z0-9._%+-]+@[A-Za-z0-9.-]+\.[A-Z|a-z]{2,}\b
Match_emails(s, i) ==
    LET IsLocal(c) == IsAsciiLetter(c) \/ IsDigit(c) \/ c \in {46, 95, 37, 43, 45}
        IsDomain(c) == IsAsciiLetter(c) \/ IsDigit(c) \/ c \in {46, 45}
        IsTld(c) == IsAsciiLetter(c) \/ c = 124
    IN  IF ~(i <= Len(s) /\ IsLocal(s[i]) /\ WordBoundary(s, i)) THEN 0
        ELSE LET at == FirstWhere(s, i, LAMBDA c : ~IsLocal(c))
                 domEnd == FirstWhere(s, at + 1, LAMBDA c : ~IsDomain(c))
                 \* the ends e a match can have when its last dot is at k
                 ends(k) == {e \in (k + 3)..FirstWhere(s, k + 1, LAMBDA c : ~IsTld(c)) :
                                WordBoundary(s, e)}
                 dots == {k \in (at + 2)..(domEnd - 1) : s[k] = 46 /\ ends(k) # {}}
             IN  IF at > Len(s) \/ s[at] # 64 \/ dots = {} THEN 0
                 ELSE SetMax(ends(SetMax(dots)))

\* \([^a-zA-Z\u4e00-\u9fff]*\)
Match_empty_brackets(s, i) ==
    IF ~(i <= Len(s) /\ s[i] = 40) THEN 0
    ELSE LET stop == FirstWhere(s, i + 1, LAMBDA c : IsAsciiLetter(c) \/ IsCJK(c))
             closes == {k \in (i + 1)..(stop - 1) : s[k] = 41}
         IN  IF closes = {} THEN 0 ELSE SetMax(closes) + 1

\* \[\s*\d+\s*\]
Match_citation_brackets(s, i) ==
    IF ~(i <= Len(s) /\ s[i] = 91) THEN 0
    ELSE LET d1 == FirstWhere(s, i + 1, LAMBDA c : ~IsReSpace(c))
             d2 == FirstWhere(s, d1, LAMBDA c : ~IsDigit(c))
             rb == FirstWhere(s, d2, LAMBDA c : ~IsReSpace(c))
         IN  IF d2 > d1 /\ rb <= Len(s) /\ s[rb] = 93 THEN rb + 1 ELSE 0

\* (上一页|下一页|返回|目录|导航|分类|Category:|Template:)   IGNORECASE
navigation_words ==
    << <<19978, 19968, 39029>>, <<19979, 19968, 39029>>, <<36820, 22238>>,
       <<30446, 24405>>, <<23548, 33322>>, <<20998, 31867>>,
       <<99, 97, 116, 101, 103, 111, 114, 121, 58>>,
       <<116, 101, 109, 112, 108, 97, 116, 101, 58>> >>

Match_navigation(s, i) ==
    LET hits == {w \in 1..Len(navigation_words) : MatchAtCI(s, i, navigation_words[w])}
    IN  IF hits = {} THEN 0 ELSE i + Len(navigation_words[SetMin(hits)])

\* <c>{<least>,}  for one character c
\* c{least} in place of c{least,}: the match takes least characters of the run
match_run_exact(s, i, c, least) ==
    LET stop == FirstWhere(s, i, LAMBDA x : x # c)
    IN  IF stop - i >= least THEN i + least ELSE 0

MatchRun(s, i, c, least) ==
    LET stop == FirstWhere(s, i, LAMBDA x : x # c)
    IN  IF stop - i >= least THEN stop ELSE 0

\* ^[^\w\u4e00-\u9fff]*$   MULTILINE; an empty match (replaced by '')
\* changes nothing and counts as no match
Match_punctuation_lines(s, i) ==
    IF ~(i = 1 \/ (i > 1 /\ i - 1 <= Len(s) /\ s[i - 1] = 10)) THEN 0
    ELSE LET stop == FirstWhere(s, i, LAMBDA c : IsWordChar(c) \/ IsCJK(c))
             eols == {k \in (i + 1)..stop : k = Len(s) + 1 \/ s[k] = 10}
         IN  IF eols = {} THEN 0 ELSE SetMax(eols)

\* self.patterns[name]: the index after the match that starts at index i of
\* s, or 0 when the pattern does not match there
Match(name, s, i) ==
    CASE name = "urls"              -> Match_urls(s, i)
      [] name = "emails"            -> Match_emails(s, i)
      [] name = "wiki_refs"         -> Match_wiki_refs(s, i)
      [] name = "wiki_comments"     -> Match_wiki_comments(s, i)
      [] name = "wiki_categories"   ->
             MatchLink(s, i, <<91, 91, 99, 97, 116, 101, 103, 111, 114, 121, 58>>)
      [] name = "wiki_files"        ->
             MatchLink(s, i, <<91, 91, 102, 105, 108, 101, 58>>)
      [] name = "wiki_images"       ->
             MatchLink(s, i, <<91, 91, 105, 109, 97, 103, 101, 58>>)
      [] name = "infobox"           ->
             MatchBraces(s, i, <<123, 123, 105, 110, 102, 111, 98, 111, 120>>)
      [] name = "templates"         -> MatchBraces(s, i, <<123, 123>>)
      [] name = "tables"            -> Match_tables(s, i)
      [] name = "empty_brackets"    -> Match_empty_brackets(s, i)
      [] name = "citation_brackets" -> Match_citation_brackets(s, i)
      [] name = "multiple_spaces"   -> MatchRun(s, i, 32, 2)
      [] name = "multiple_newlines" -> MatchRun(s, i, 10, 3)
      [] name = "punctuation_lines" -> Match_punctuation_lines(s, i)
      [] name = "navigation"        -> Match_navigation(s, i)

\* the start of the leftmost match at or after index from, or 0
NextMatch(name, s, from) ==
    IF \E k \in from..Len(s) : Match(name, s, k) > 0
    THEN CHOOSE k \in from..Len(s) :
             Match(name, s, k) > 0 /\
             \A j \in from..(k - 1) : Match(name, s, j) = 0
    ELSE 0

\* self.patterns[name].sub(repl, s[from:]): the leftmost non-overlapping
\* matches replaced, left to right
RECURSIVE SubFrom(_, _, _, _)
SubFrom(name, repl, s, from) ==
    Bind(NextMatch(name, s, from), LAMBDA k :
        IF k = 0 THEN SubSeq(s, from, Len(s))
        ELSE Bind(Match(name, s, k), LAMBDA end :
                 SubSeq(s, from, k - 1) \o repl \o SubFrom(name, repl, s, end)))

Sub(name, repl, s) == SubFrom(name, repl, s, 1)

(***************************************************************************)
(* cleaner.py: TextCleaner                                                 *)
(***************************************************************************)
\* len(regex.findall(<one-character class>, s))
Count(s, P(_)) == Cardinality({i \in 1..Len(s) : P(s[i])})

\* s.split(sep), sep a non-empty str
RECURSIVE SplitFrom(_, _, _)
SplitFrom(s, sep, from) ==
    Bind(FirstLit(s, from, sep), LAMBDA k :
        IF k = 0 THEN <<SubSeq(s, from, Len(s))>>
        ELSE <<SubSeq(s, from, k - 1)>> \o SplitFrom(s, sep, k + Len(sep)))

Split(s, sep) == SplitFrom(s, sep, 1)

\* sep.join(parts)
RECURSIVE Join(_, _)
Join(sep, parts) ==
    IF Len(parts) = 0 THEN <<>>
    ELSE IF Len(parts) = 1 THEN parts[1]
    ELSE parts[1] \o sep \o Join(sep, Tail(parts))

MinParagraphLength == 20
MinParagraphWordChars == 10
MinParagraphCJK == 5

\* the script test with "or" in place of "and"
is_valid_paragraph_or(paragraph) ==
    LET chinese_chars == Count(paragraph, IsCJK)
        total_chars == Count(paragraph, LAMBDA c : IsWordChar(c) \/ IsCJK(c))
        special == Count(paragraph,
                       LAMBDA c : ~(IsWordChar(c) \/ IsCJK(c) \/ IsReSpace(c)))
    IN  IF Len(Strip(paragraph)) < MinParagraphLength THEN FALSE
        ELSE IF total_chars < MinParagraphWordChars THEN FALSE
        ELSE IF 10 * chinese_chars < 3 * total_chars
                \/ chinese_chars < MinParagraphCJK THEN FALSE
        ELSE IF 2 * special > Len(paragraph) THEN FALSE
        ELSE TRUE

\* the length test left out
is_valid_paragraph_any_length(paragraph) ==
    LET chinese_chars == Count(paragraph, IsCJK)
        total_chars == Count(paragraph, LAMBDA c : IsWordChar(c) \/ IsCJK(c))
        special == Count(paragraph,
                       LAMBDA c : ~(IsWordChar(c) \/ IsCJK(c) \/ IsReSpace(c)))
    IN  IF total_chars < MinParagraphWordChars THEN FALSE
        ELSE IF 10 * chinese_chars < 3 * total_chars
                /\ chinese_chars < MinParagraphCJK THEN FALSE
        ELSE IF 2 * special > Len(paragraph) THEN FALSE
        ELSE TRUE

\* _is_valid_paragraph(paragraph); the float tests are taken exactly:
\*   a / b < 0.3  iff  10 a < 3 b,     a / b > 0.5  iff  2 a > b
_is_valid_paragraph(paragraph) ==
    LET chinese_chars == Count(paragraph, IsCJK)
        total_chars == Count(paragraph, LAMBDA c : IsWordChar(c) \/ IsCJK(c))
        special == Count(paragraph,
                       LAMBDA c : ~(IsWordChar(c) \/ IsCJK(c) \/ IsReSpace(c)))
    IN  IF Len(Strip(paragraph)) < MinParagraphLength THEN FALSE
        ELSE IF total_chars < MinParagraphWordChars THEN FALSE
        ELSE IF 10 * chinese_chars < 3 * total_chars
                /\ chinese_chars < MinParagraphCJK THEN FALSE
        ELSE IF 2 * special > Len(paragraph) THEN FALSE
        ELSE TRUE

NL == <<10>>
NLNL == <<10, 10>>
SPACE == <<32>>

\* the substitutions of _clean_text_content, in the order of lines 89-116
Passes ==
    << [name |-> "wiki_refs",         repl |-> <<>>],
       [name |-> "wiki_comments",     repl |-> <<>>],
       [name |-> "wiki_categories",   repl |-> <<>>],
       [name |-> "wiki_files",        repl |-> <<>>],
       [name |-> "wiki_images",       repl |-> <<>>],
       [name |-> "infobox",           repl |-> <<>>],
       [name |-> "templates",         repl |-> <<>>],
       [name |-> "tables",            repl |-> <<>>],
       [name |-> "urls",              repl |-> <<>>],
       [name |-> "emails",            repl |-> <<>>],
       [name |-> "empty_brackets",    repl |-> <<>>],
       [name |-> "citation_brackets", repl |-> <<>>],
       [name |-> "navigation",        repl |-> <<>>],
       [name |-> "multiple_spaces",   repl |-> SPACE],
       [name |-> "multiple_newlines", repl |-> NLNL],
       [name |-> "punctuation_lines", repl |-> <<>>] >>

\* text = self.patterns[...].sub(..., text), from substitution n on
RECURSIVE ApplyPasses(_, _)
ApplyPasses(text, n) ==
    IF n > Len(Passes) THEN text
    ELSE Bind(Sub(Passes[n].name, Passes[n].repl, text), LAMBDA t :
             ApplyPasses(t, n + 1))

\* _clean_text_content(text)
_clean_text_content(text) ==
    Bind(Split(ApplyPasses(text, 1), NLNL), LAMBDA paragraphs :
        LET stripped == [k \in 1..Len(paragraphs) |-> Strip(paragraphs[k])]
            cleaned_paragraphs == SelectSeq(stripped, _is_valid_paragraph)
        IN  Join(NLNL, cleaned_paragraphs))

SOURCE_TAG == <<122, 104, 95, 119, 105, 107, 105, 112, 101, 100, 105, 97, 95,
                50, 48, 50, 53, 48, 50, 48, 49>>       \* zh_wikipedia_20250201

MaxCategories == 5

\* regex.findall(r'\[\[Category:([^\]]+)\]\]', s[from:], IGNORECASE)
RECURSIVE FindCategories(_, _)
FindCategories(s, from) ==
    Bind(NextMatch("wiki_categories", s, from), LAMBDA k :
        IF k = 0 THEN <<>>
        ELSE Bind(Match("wiki_categories", s, k), LAMBDA end :
                 <<SubSeq(s, k + 11, end - 3)>> \o FindCategories(s, end)))

\* _extract_metadata whose list of categories is not cut to MaxCategories
extract_metadata_uncapped(title, original_text, page_id, timestamp) ==
    LET categories == FindCategories(original_text, 1)
        keys == {"title", "char_count", "source"}
                  \cup (IF Falsy(page_id) THEN {} ELSE {"page_id"})
                  \cup (IF Falsy(timestamp) THEN {} ELSE {"timestamp"})
                  \cup (IF Len(categories) = 0 THEN {} ELSE {"categories"})
    IN  [k \in keys |->
            CASE k = "title"      -> title
              [] k = "char_count" -> Len(original_text)
              [] k = "source"     -> SOURCE_TAG
              [] k = "page_id"    -> page_id
              [] k = "timestamp"  -> timestamp
              [] k = "categories" ->
                     [n \in 1..Len(categories) |-> Strip(categories[n])]]

\* _extract_metadata whose char_count is the length of the cleaned text
extract_metadata_cleaned_count(title, original_text, page_id, timestamp) ==
    LET categories == FindCategories(original_text, 1)
        keys == {"title", "char_count", "source"}
                  \cup (IF Falsy(page_id) THEN {} ELSE {"page_id"})
                  \cup (IF Falsy(timestamp) THEN {} ELSE {"timestamp"})
                  \cup (IF Len(categories) = 0 THEN {} ELSE {"categories"})
    IN  [k \in keys |->
            CASE k = "title"      -> title
              [] k = "char_count" -> Len(_clean_text_content(original_text))
              [] k = "source"     -> SOURCE_TAG
              [] k = "page_id"    -> page_id
              [] k = "timestamp"  -> timestamp
              [] k = "categories" ->
                     [n \in 1..(IF Len(categories) < MaxCategories
                                THEN Len(categories) ELSE MaxCategories) |->
                         Strip(categories[n])]]

\* _extract_metadata(title, original_text, page_id, timestamp); title,
\* page_id and timestamp are handles
_extract_metadata(title, original_text, page_id, timestamp) ==
    LET categories == FindCategories(original_text, 1)
        keys == {"title", "char_count", "source"}
                  \cup (IF Falsy(page_id) THEN {} ELSE {"page_id"})
                  \cup (IF Falsy(timestamp) THEN {} ELSE {"timestamp"})
                  \cup (IF Len(categories) = 0 THEN {} ELSE {"categories"})
    IN  [k \in keys |->
            CASE k = "title"      -> title
              [] k = "char_count" -> Len(original_text)
              [] k = "source"     -> SOURCE_TAG
              [] k = "page_id"    -> page_id
              [] k = "timestamp"  -> timestamp
              [] k = "categories" ->
                     [n \in 1..(IF Len(categories) < MaxCategories
                                THEN Len(categories) ELSE MaxCategories) |->
                         Strip(categories[n])]]

\* the indices where a whitespace-delimited word of s starts
WordStarts(s) ==
    {i \in 1..Len(s) : ~IsSpace(s[i]) /\ (i = 1 \/ IsSpace(s[i - 1]))}

\* set(s.split())
WordSet(s) ==
    {SubSeq(s, i, FirstWhere(s, i, IsSpace) - 1) : i \in WordStarts(s)}

\* [line.strip() for line in s.split('\n') if line.strip()]: the indices
\* where the first non-blank character of a line stands, one per such line
NonEmptyLineStarts(s) ==
    {i \in WordStarts(s) :
        /\ ~IsSpace(s[i])
        /\ \E b \in 0..(i - 1) :
              /\ b = 0 \/ s[b] = 10
              /\ \A j \in (b + 1)..(i - 1) : IsSpace(s[j]) /\ s[j] # 10}

MinArticleLength == 100
MinArticleCJK == 20
MinArticleLines == 3
SpamWordCount == 100

\* the uniqueness test applied from 100 words on, not from 101
passes_quality_checks_from_100(text, meta) ==
    LET chinese_chars == Count(text, IsCJK)
        non_empty_lines == Cardinality(NonEmptyLineStarts(text))
        words == Cardinality(WordStarts(text))
        unique == Cardinality(WordSet(text))
    IN  IF Len(Strip(text)) < MinArticleLength THEN FALSE
        ELSE IF chinese_chars < MinArticleCJK THEN FALSE
        ELSE IF non_empty_lines < MinArticleLines THEN FALSE
        ELSE IF 2 * unique < words /\ words >= SpamWordCount THEN FALSE
        ELSE TRUE

\* _passes_quality_checks(text, meta);  len(set(words)) < len(words) * 0.5
\* is taken exactly as  2 * len(set(words)) < len(words)
_passes_quality_checks(text, meta) ==
    LET chinese_chars == Count(text, IsCJK)
        non_empty_lines == Cardinality(NonEmptyLineStarts(text))
        words == Cardinality(WordStarts(text))
        unique == Cardinality(WordSet(text))
    IN  IF Len(Strip(text)) < MinArticleLength THEN FALSE
        ELSE IF chinese_chars < MinArticleCJK THEN FALSE
        ELSE IF non_empty_lines < MinArticleLines THEN FALSE
        ELSE IF 2 * unique < words /\ words > SpamWordCount THEN FALSE
        ELSE TRUE

NoArticle == [k \in {"None"} |-> TRUE]

\* clean_article(title, text, page_id, timestamp) at its return: the local
\* cleaned_text, the local meta once line 75 has set it, and ret, the value
\* returned (NoArticle for None)
clean_article_frame(title, text, page_id, timestamp) ==
    Bind(_clean_text_content(text), LAMBDA cleaned_text :
        IF Len(Strip(cleaned_text)) < MinArticleLength
        THEN [cleaned_text |-> cleaned_text, ret |-> NoArticle]
        ELSE Bind(_extract_metadata(title, text, page_id, timestamp),
                  LAMBDA meta :
                 IF ~_passes_quality_checks(cleaned_text, meta)
                 THEN [cleaned_text |-> cleaned_text, meta |-> meta,
                       ret |-> NoArticle]
                 ELSE [cleaned_text |-> cleaned_text, meta |-> meta,
                       ret |-> [text |-> cleaned_text, meta |-> meta]]))

clean_article(title, text, page_id, timestamp) ==
    clean_article_frame(title, text, page_id, timestamp).ret

MinRecordLength == 50

\* formatter.py: _validate_record(record) on what clean_article returns: a
\* dict whose text is a str and whose meta is a dict; the title, a handle,
\* is a str unless it is None
_validate_record(record) ==
    /\ "text" \in DOMAIN record
    /\ "meta" \in DOMAIN record
    /\ Len(Strip(record["text"])) >= MinRecordLength
    /\ "title" \in DOMAIN record["meta"]
    /\ record["meta"]["title"] # NoneVal

(***************************************************************************)
(* parser.py: WikiXMLParser                                                *)
(***************************************************************************)
Tags == {"title", "id", "text", "timestamp"}

\* namespace_pattern  ^([^:]+):  -- group(1) of the match: the text before
\* the first colon, when at least one character precedes it; NoMatch (which
\* no group(1) can be) when the pattern does not match
NoMatch == <<>>

namespace_match(title) ==
    LET colons == {i \in 1..Len(title) : title[i] = 58}
    IN  IF colons = {} \/ SetMin(colons) = 1
        THEN NoMatch
        ELSE SubSeq(title, 1, SetMin(colons) - 1)

skip_namespaces ==
    { <<87, 105, 107, 105, 112, 101, 100, 105, 97>>,   \* Wikipedia
      <<32500, 22522, 30334, 31185>>,                  \* 维基百科
      <<85, 115, 101, 114>>,                           \* User
      <<29992, 25143>>,                                \* 用户
      <<84, 97, 108, 107>>,                            \* Talk
      <<35752, 35770>>,                                \* 讨论
      <<70, 105, 108, 101>>,                           \* File
      <<25991, 20214>>,                                \* 文件
      <<77, 101, 100, 105, 97, 87, 105, 107, 105>>,    \* MediaWiki
      <<84, 101, 109, 112, 108, 97, 116, 101>>,        \* Template
      <<27169, 26495>>,                                \* 模板
      <<72, 101, 108, 112>>,                           \* Help
      <<24110, 21161>>,                                \* 帮助
      <<67, 97, 116, 101, 103, 111, 114, 121>>,        \* Category
      <<20998, 31867>>,                                \* 分类
      <<80, 111, 114, 116, 97, 108>>,                  \* Portal
      <<20027, 39064>> }                               \* 主题

REDIRECT_ZH == <<35, 37325, 23450, 21521>>                     \* #重定向
REDIRECT_EN == <<35, 82, 69, 68, 73, 82, 69, 67, 84>>          \* #REDIRECT
DISAMBIG_ZH == <<28040, 27495, 20041>>                         \* 消歧义
DISAMBIG_EN == <<100, 105, 115, 97, 109, 98, 105, 103, 117, 97, 116, 105,
                 111, 110>>                                    \* disambiguation

MinRawLength == 200

\* the length floor taken on the raw text instead of text.strip()
should_include_unstripped(page_data) ==
    LET title == Get(page_data, "title", EmptyStr)
        text  == Get(page_data, "text", EmptyStr)
        stripped == Strip(Str(text))
        namespace == namespace_match(Str(title))
    IN  IF Falsy(title) \/ Falsy(text) THEN FALSE
        ELSE IF \/ StartsWith(stripped, REDIRECT_ZH)
                \/ StartsWith(stripped, REDIRECT_EN) THEN FALSE
        ELSE IF \/ Contains(Str(title), DISAMBIG_ZH)
                \/ Contains(Lower(Str(title)), DISAMBIG_EN) THEN FALSE
        ELSE IF namespace # NoMatch /\ namespace \in skip_namespaces THEN FALSE
        ELSE IF Len(Str(text)) < MinRawLength THEN FALSE
        ELSE TRUE

\* _should_include_page(page_data): the returns in the order of the code
_should_include_page(page_data) ==
    LET title == Get(page_data, "title", EmptyStr)
        text  == Get(page_data, "text", EmptyStr)
        stripped == Strip(Str(text))             \* text.strip()
        namespace == namespace_match(Str(title))
    IN  IF Falsy(title) \/ Falsy(text) THEN FALSE
        ELSE IF \/ StartsWith(stripped, REDIRECT_ZH)
                \/ StartsWith(stripped, REDIRECT_EN) THEN FALSE
        ELSE IF \/ Contains(Str(title), DISAMBIG_ZH)
                \/ Contains(Lower(Str(title)), DISAMBIG_EN) THEN FALSE
        ELSE IF namespace # NoMatch /\ namespace \in skip_namespaces THEN FALSE
        ELSE IF Len(stripped) < MinRawLength THEN FALSE
        ELSE TRUE

\* every field overwritten by each occurrence, the id too
AccumulateLast(page, tag, h) == Put(page, tag, h)

\* every field kept from its first occurrence, as the id is
AccumulateFirst(page, tag, h) ==
    IF tag \notin DOMAIN page THEN Put(page, tag, h) ELSE page

\* parse_dump, the 'end' event of a title, id, text or timestamp element
\* whose text is the str h (None for an empty element): the new accumulator
Accumulate(page, tag, h) ==
    IF tag = "id" /\ "id" \notin DOMAIN page THEN Put(page, tag, h)
    ELSE IF tag # "id" THEN Put(page, tag, h)
    ELSE page

\* the reset placed inside the branch that yields
ResetPageIfYielded(page, wasYielded) ==
    IF wasYielded THEN EmptyDict ELSE page

\* parse_dump, after the 'end' event of a page: the accumulator the next
\* page starts with (current_page = {}), whether the page was yielded or not
ResetPage(page, wasYielded) == EmptyDict

NoItem == [k \in {"none"} |-> NoneVal]

HasIdTs == \E i, j \in 1..Len(elems) : elems[i][1] = "id" /\ elems[j][1] = "timestamp"

\* for event, elem in context, event == 'end', tag in [title, id, text,
\* timestamp]
Element(tag, h, limit) ==
    /\ gen = "run"
    /\ pageNo < MaxPages
    /\ Len(elems) < limit
    /\ current_page' = Accumulate(current_page, tag, h)
    /\ elems' = Append(elems, <<tag, h>>)
    /\ UNCHANGED <<gen, item, pageNo, prevOut, prevIdTs>>
    /\ UNCHANGED notParserVars

\* every 'start' event (current_element = tag, a variable nothing reads) and
\* the 'end' event of any other element (ns, revision, contributor, ...)
OtherEvent ==
    /\ gen = "run"
    /\ pageNo < MaxPages
    /\ UNCHANGED <<parserVars, notParserVars>>

\* event == 'end', tag == 'page': test the accumulator and either suspend at
\* the yield or go on with the reset
EndPage ==
    /\ gen = "run"
    /\ pageNo < MaxPages
    /\ pageNo' = pageNo + 1
    /\ UNCHANGED notParserVars
    /\ IF _should_include_page(current_page)
       THEN /\ gen' = "yield"
            /\ item' = current_page
            /\ UNCHANGED <<current_page, elems, prevOut, prevIdTs>>
       ELSE /\ current_page' = ResetPage(current_page, FALSE)
            /\ elems' = <<>>
            /\ prevOut' = "rejected"
            /\ prevIdTs' = HasIdTs
            /\ UNCHANGED <<gen, item>>

\* the consumer asks for the next page: the generator resumes after the
\* yield with current_page = {}
Resume ==
    /\ gen = "yield"
    /\ gen' = "run"
    /\ item' = NoItem
    /\ current_page' = ResetPage(current_page, TRUE)
    /\ elems' = <<>>
    /\ prevOut' = "yielded"
    /\ prevIdTs' = HasIdTs
    /\ UNCHANGED pageNo
    /\ UNCHANGED notParserVars

\* the event stream ends after a complete page: the generator returns
EndOfStream ==
    /\ gen = "run"
    /\ elems = <<>>
    /\ gen' = "done"
    /\ UNCHANGED <<current_page, item, elems, pageNo, prevOut, prevIdTs>>
    /\ UNCHANGED notParserVars

\* the input is not well-formed XML, or ends inside a page: ET.iterparse
\* raises, and parse_dump has no handler
ParseError ==
    /\ gen = "run"
    /\ gen' = "raised"
    /\ UNCHANGED <<current_page, item, elems, pageNo, prevOut, prevIdTs>>
    /\ UNCHANGED notParserVars

\* no run of process_dump and no validation under way
NoBuffer == [page |-> 0, chunks |-> 0, nl |-> FALSE]

\* main is not running: process_dump, when it runs, is called directly
IdleMain ==
    /\ args_process = NoneVal
    /\ exit_status = 0

IdleRun ==
    /\ IdleMain
    /\ dump = <<>>
    /\ max_articles = 0
    /\ pos = 0
    /\ pc = "idle"
    /\ cur = 0
    /\ processed_count = 0
    /\ written_count = 0
    /\ stats = [total_processed |-> 0, total_written |-> 0, total_skipped |-> 0]
    /\ out_file = <<>>
    /\ buf = NoBuffer
    /\ outcome = "idle"
    /\ ret = 0

IdleValidate ==
    /\ file_len = 0
    /\ vpc = "idle"
    /\ line_num = 0
    /\ validation_stats = [valid |-> TRUE, total_lines |-> 0,
                           valid_records |-> 0, invalid_records |-> 0,
                           errors |-> <<>>]

InitParser ==
    /\ current_page = EmptyDict
    /\ gen = "run"
    /\ item = NoItem
    /\ elems = <<>>
    /\ pageNo = 0
    /\ prevOut = "none"
    /\ prevIdTs = FALSE

\* no TextCleaner call is under way
IdleCleaner ==
    /\ case = [kind |-> "none"]
    /\ input = <<>>
    /\ call = "idle"
    /\ output = NoArticle

(***************************************************************************)
(* SpecParse: parse_dump driven by every event stream within the bounds,   *)
(* consumed by  for page in parser.parse_dump(): pass                      *)
(***************************************************************************)
ParseValues ==
    [title |-> {"t_cn", "t_cn2"}, text |-> {"x_a", "x_b"},
     id |-> {"i_1", "i_2"}, timestamp |-> {"s_1", "s_2"}]

NextParse ==
    \/ \E tag \in Tags : \E h \in ParseValues[tag] : Element(tag, h, MaxElems)
    \/ OtherEvent
    \/ EndPage
    \/ Resume
    \/ EndOfStream
    \/ ParseError

InitParse == InitParser /\ IdleCleaner /\ IdleRun /\ IdleValidate

SpecParse == InitParse /\ [][NextParse]_vars

(***************************************************************************)
(* SpecFilter: the same generator on pages of few elements drawn from a    *)
(* wider range of titles and texts.                                        *)
(***************************************************************************)
MaxFilterElems == 2

FilterValues ==
    [title |-> {"t_cn", "t_talk", "t_fenlei", "t_geo", "t_lctalk", "t_dis",
                "t_xqy", NoneVal},
     text |-> {"x_a", "x_199", "x_pad", "x_pad200", "x_redir", "x_cdx",
               "x_lcredir", "x_blank", NoneVal},
     id |-> {"i_1"}, timestamp |-> {"s_1"}]

NextFilter ==
    \/ \E tag \in Tags : \E h \in FilterValues[tag] :
           Element(tag, h, MaxFilterElems)
    \/ OtherEvent
    \/ EndPage
    \/ Resume
    \/ EndOfStream
    \/ ParseError

InitFilter == InitParser /\ IdleCleaner /\ IdleRun /\ IdleValidate

SpecFilter == InitFilter /\ [][NextFilter]_vars

(***************************************************************************)
(* Properties of the decoder.                                              *)
(***************************************************************************)
\* the values of the elements with this tag closed inside the current page,
\* in stream order
Occurrences(tag) ==
    LET at == {k \in 1..Len(elems) : elems[k][1] = tag}
        nth[n \in 0..Cardinality(at)] ==
            IF n = 0 THEN 0
            ELSE CHOOSE k \in at : k > nth[n - 1] /\
                     \A j \in at : j > nth[n - 1] => k <= j
    IN  [n \in 1..Cardinality(at) |-> elems[nth[n]][2]]

\* C1: every field of a yielded RawArticle comes from an element inside the
\* same page, and the accumulator is empty whenever a page starts, so a page
\* lacking a field is never yielded with an earlier page's value for it.
C1_FieldsFromSamePage ==
    /\ gen = "yield" =>
           \A f \in DOMAIN item :
               \E k \in 1..Len(elems) : elems[k] = <<f, item[f]>>
    /\ gen # "yield" /\ elems = <<>> => current_page = EmptyDict

\* a page without id and timestamp is yielded right after a rejected page
\* that carried both
C1_Witness ==
    /\ gen = "yield"
    /\ prevOut = "rejected"
    /\ prevIdTs
    /\ "id" \notin DOMAIN item
    /\ "timestamp" \notin DOMAIN item

\* the exclusion conditions, on the fields of the RawArticle (a missing or
\* empty element counts as the empty string)
ClaimExcluded(page) ==
    LET field(f) == IF f \in DOMAIN page /\ page[f] # NoneVal
                    THEN Str(page[f]) ELSE <<>>
        title == field("title")
        text  == field("text")
        trimmed == Strip(text)
    IN  \/ title = <<>>
        \/ text = <<>>
        \/ StartsWith(trimmed, REDIRECT_ZH)
        \/ StartsWith(trimmed, REDIRECT_EN)
        \/ Contains(title, DISAMBIG_ZH)
        \/ Contains(Lower(title), DISAMBIG_EN)
        \/ \E i \in 1..Len(title) :
              /\ title[i] = 58
              /\ \A j \in 1..(i - 1) : title[j] # 58
              /\ SubSeq(title, 1, i - 1) \in skip_namespaces
        \/ Len(trimmed) < 200

\* C2: when a page closes it is yielded, at once and as accumulated, if and
\* only if none of the exclusion conditions holds; nothing is yielded at any
\* other moment, so the yields follow the stream order.
C2_YieldIffIncluded ==
    [][ /\ pageNo' = pageNo + 1 =>
            IF ClaimExcluded(current_page)
            THEN gen' = "run" /\ item' = NoItem
            ELSE gen' = "yield" /\ item' = current_page
        /\ gen' = "yield" /\ gen # "yield" => pageNo' = pageNo + 1
      ]_vars

\* a page is yielded after an excluded one
C2_Witness ==
    /\ gen = "yield"
    /\ prevOut = "rejected"
    /\ pageNo = 2

\* C3: the id of a yielded RawArticle is the value of the first id element
\* closed inside its page.
C3_FirstIdWins ==
    gen = "yield" /\ Len(Occurrences("id")) > 0 =>
        "id" \in DOMAIN item /\ item["id"] = Occurrences("id")[1]

\* a yielded page with a second id element that differs from the first
C3_Witness ==
    /\ gen = "yield"
    /\ Len(Occurrences("id")) >= 2
    /\ Occurrences("id")[2] # Occurrences("id")[1]

\* C4 as stated: title, text and timestamp of a yielded RawArticle are the
\* values of their first occurrence within the page.
C4_FirstOccurrenceWins ==
    gen = "yield" =>
        \A f \in {"title", "text", "timestamp"} :
            Len(Occurrences(f)) > 0 =>
                f \in DOMAIN item /\ item[f] = Occurrences(f)[1]

\* C4 amended: title, text and timestamp of a yielded RawArticle are the
\* values of their last occurrence within the page.
C4_LastOccurrenceWins ==
    gen = "yield" =>
        \A f \in {"title", "text", "timestamp"} :
            Len(Occurrences(f)) > 0 =>
                f \in DOMAIN item /\
                item[f] = Occurrences(f)[Len(Occurrences(f))]

\* a yielded page with two revisions whose texts differ
C4_Witness ==
    /\ gen = "yield"
    /\ Len(Occurrences("text")) >= 2
    /\ Occurrences("text")[1] # Occurrences("text")[Len(Occurrences("text"))]

(***************************************************************************)
(* SpecPara: _is_valid_paragraph called on one paragraph, drawn from the   *)
(* strings  pad spaces, CJK, gap spaces, Latin letters, punctuation, pad.  *)
(***************************************************************************)
MaxPad == 1
MaxCJK == 6
MaxGap == 6
MaxLatin == 12
MaxPunct == 12

ParagraphCases ==
    [kind : {"paragraph"}, pad : 0..MaxPad, cjk : 0..MaxCJK, gap : 0..MaxGap,
     latin : 0..MaxLatin, punct : 0..MaxPunct]

ParagraphOf(c) ==
    Rep(32, c.pad) \o Rep(20013, c.cjk) \o Rep(32, c.gap) \o Rep(97, c.latin)
        \o Rep(12290, c.punct) \o Rep(32, c.pad)

InitPara ==
    /\ InitParser
    /\ IdleRun
    /\ IdleValidate
    /\ case \in ParagraphCases
    /\ input = ParagraphOf(case)
    /\ call = "pending"
    /\ output = NoArticle

CallIsValidParagraph ==
    /\ call = "pending"
    /\ case.kind = "paragraph"
    /\ output' = [valid |-> _is_valid_paragraph(input)]
    /\ call' = "returned"
    /\ UNCHANGED <<case, input, notCleanerVars>>

NextPara == CallIsValidParagraph

SpecPara == InitPara /\ [][NextPara]_vars

(***************************************************************************)
(* Properties of the paragraph gate.                                       *)
(***************************************************************************)
\* the three stated conditions, from the make-up of the paragraph
LowCJK(c) == 10 * c.cjk < 3 * (c.cjk + c.latin) /\ c.cjk < 5
MostlySpecial(c) == 2 * c.punct > Len(ParagraphOf(c))
FewWordChars(c) == c.cjk + c.latin < 10

TrimmedLength(c) ==
    IF c.cjk + c.latin + c.punct = 0 THEN 0
    ELSE c.cjk + c.latin + c.punct
         + (IF c.cjk > 0 /\ c.latin + c.punct > 0 THEN c.gap ELSE 0)

\* C5 as stated: a paragraph is kept if and only if none of the three
\* conditions holds (trimmed length < 20; CJK share < 0.3 and CJK count < 5;
\* share of other characters > 0.5).
C5_ThreeConditions ==
    call = "returned" /\ case.kind = "paragraph" =>
        (output.valid <=>
            ~(TrimmedLength(case) < 20 \/ LowCJK(case) \/ MostlySpecial(case)))

\* C5 amended: a paragraph is kept if and only if none of four conditions
\* holds: the three stated ones, and fewer than 10 CJK-or-word characters.
C5_FourConditions ==
    call = "returned" /\ case.kind = "paragraph" =>
        (output.valid <=>
            ~(TrimmedLength(case) < 20 \/ FewWordChars(case)
              \/ LowCJK(case) \/ MostlySpecial(case)))

\* a paragraph that none of the three stated conditions rejects is rejected
C5_Witness ==
    /\ call = "returned"
    /\ case.kind = "paragraph"
    /\ ~output.valid
    /\ ~(TrimmedLength(case) < 20 \/ LowCJK(case) \/ MostlySpecial(case))

(***************************************************************************)
(* SpecClean: clean_article called on one raw text.  The text is either an *)
(* article of  lines  lines of  words  single-space separated words drawn  *)
(* round-robin from a vocabulary, or a scenario text: one reference block, *)
(* one category link, one infobox block, a 15-character paragraph and an   *)
(* 80-character paragraph, in some order.                                  *)
(***************************************************************************)
MaxLines == 4
WordsPerLine == {2, 10, 25, 26, 50}
Vocabularies == {"one", "underhalf", "half", "all"}

ArticleCases ==
    [kind : {"article"}, lines : 1..MaxLines, words : WordsPerLine,
     vocab : Vocabularies, script : {"cjk", "mixed"}, sep : {"line", "para"}]

\* the number of distinct words of the article
Distinct(c) ==
    LET total == c.lines * c.words
    IN  CASE c.vocab = "one"       -> 1
          [] c.vocab = "underhalf" -> IF total < 4 THEN 1 ELSE (total - 1) \div 2
          [] c.vocab = "half"      -> (total + 1) \div 2
          [] c.vocab = "all"       -> total

\* word v of the vocabulary: one CJK ideograph, or (in the mixed script, four
\* words out of five) two Latin letters
Word(c, v) ==
    IF c.script = "cjk" \/ v % 5 = 4
    THEN <<19968 + v>>
    ELSE <<97 + (v \div 26), 97 + (v % 26)>>

ArticleOf(c) ==
    LET d == Distinct(c)
        line(k) == Join(SPACE,
                        [j \in 1..c.words |->
                            Word(c, ((k - 1) * c.words + j - 1) % d)])
    IN  Join(IF c.sep = "line" THEN NL ELSE NLNL,
             [k \in 1..c.lines |-> line(k)])

Pieces == {"ref", "category", "infobox", "p15", "p80"}

CategoryName == <<22269, 23478>>                                   \* 国家

\* 32 x 中, a comma, 31 x 国, then  ，China GDP 2020。
Paragraph80 ==
    Rep(20013, 32) \o <<65292>> \o Rep(22269, 31)
        \o <<65292, 67, 104, 105, 110, 97, 32, 71, 68, 80, 32,
             50, 48, 50, 48, 12290>>

\* 14 x 中 and a full stop
Paragraph15 == Rep(20013, 14) \o <<12290>>

PieceText(c, p) ==
    CASE p = "ref" ->
           IF c.ref = "plain"
           THEN <<60, 114, 101, 102, 62, 21442, 32771, 36164, 26009,
                  60, 47, 114, 101, 102, 62>>   \* <ref>参考资料</ref>
           ELSE <<60, 114, 101, 102, 32, 110, 97, 109, 101, 61, 34, 97, 34,
                  62, 26469, 28304, 60, 47, 114, 101, 102, 62>>
                                                \* <ref name="a">来源</ref>
      [] p = "category" ->
           <<91, 91, 67, 97, 116, 101, 103, 111, 114, 121, 58>>
               \o CategoryName \o <<93, 93>>    \* [[Category:国家]]
      [] p = "infobox" ->
           <<123, 123, 73, 110, 102, 111, 98, 111, 120, 32, 99, 111, 117,
             110, 116, 114, 121, 124, 110, 97, 109, 101, 61, 20013, 22269,
             125, 125>>                         \* {{Infobox country|name=中国}}
      [] p = "p15" -> Paragraph15
      [] p = "p80" -> Paragraph80

IsParagraph(p) == p \in {"p15", "p80"}

Position(c, p) == CHOOSE i \in 1..5 : c.order[i] = p

\* the two paragraphs are separated by a blank line, or by lines of blocks;
\* blocks set inline (sep "none") never stand between the two paragraphs
ScenarioCases ==
    {c \in [kind : {"scenario"},
            order : {o \in [1..5 -> Pieces] :
                        \A i, j \in 1..5 : o[i] = o[j] => i = j},
            sep : {"none", "line", "para"},
            ref : {"plain", "named"}] :
        c.sep = "none" =>
            (Position(c, "p15") - Position(c, "p80")) \in {-1, 1}}

ScenarioOf(c) ==
    LET between(i) ==
            IF IsParagraph(c.order[i]) /\ IsParagraph(c.order[i + 1])
            THEN NLNL
            ELSE CASE c.sep = "none" -> <<>>
                   [] c.sep = "line" -> NL
                   [] c.sep = "para" -> NLNL
        t(i) == PieceText(c, c.order[i])
    IN  t(1) \o between(1) \o t(2) \o between(2) \o t(3) \o between(3)
             \o t(4) \o between(4) \o t(5)

InitClean ==
    /\ InitParser
    /\ IdleRun
    /\ IdleValidate
    /\ case \in ArticleCases \cup ScenarioCases
    /\ input = IF case.kind = "article" THEN ArticleOf(case)
               ELSE ScenarioOf(case)
    /\ call = "pending"
    /\ output = NoArticle

\* cleaner.clean_article(title="中国", text=input, page_id="1",
\*                        timestamp="2025-01")
CallCleanArticle ==
    /\ call = "pending"
    /\ case.kind \in {"article", "scenario"}
    /\ output' = clean_article_frame("t_cn", input, "i_1", "s_1")
    /\ call' = "returned"
    /\ UNCHANGED <<case, input, notCleanerVars>>

NextClean == CallCleanArticle

SpecClean == InitClean /\ [][NextClean]_vars

(***************************************************************************)
(* Properties of clean_article.                                            *)
(***************************************************************************)
\* the article gate as stated, on a cleaned text
TrimmedLongEnough(text) == Len(Strip(text)) >= 100
EnoughCJK(text) == Count(text, IsCJK) >= 20
EnoughLines(text) == Cardinality(NonEmptyLineStarts(text)) >= 3
Repetitive(text) ==
    /\ Cardinality(WordStarts(text)) > 100
    /\ 2 * Cardinality(WordSet(text)) < Cardinality(WordStarts(text))

ArticleGate(text) ==
    /\ TrimmedLongEnough(text)
    /\ EnoughCJK(text)
    /\ EnoughLines(text)
    /\ ~Repetitive(text)

\* C6: clean_article returns a record if and only if the cleaned text passes
\* the article gate (trimmed length >= 100, CJK count >= 20, at least 3
\* non-blank lines, not more than 100 words with fewer than half distinct);
\* the record's text is that cleaned text, so it satisfies the four
\* invariants; a text of at most 100 words that passes the other three
\* thresholds is never rejected.
C6_RecordIffGate ==
    call = "returned" /\ case.kind = "article" =>
        /\ (output.ret # NoArticle) <=> ArticleGate(output.cleaned_text)
        /\ output.ret # NoArticle =>
              /\ output.ret.text = output.cleaned_text
              /\ ArticleGate(output.ret.text)
        /\ (/\ Cardinality(WordStarts(output.cleaned_text)) <= 100
            /\ TrimmedLongEnough(output.cleaned_text)
            /\ EnoughCJK(output.cleaned_text)
            /\ EnoughLines(output.cleaned_text)) => output.ret # NoArticle

\* a body of 150 words, fewer than 75 of them distinct, that passes the other
\* three thresholds and is rejected
C6_Witness ==
    /\ call = "returned"
    /\ case.kind = "article"
    /\ Cardinality(WordStarts(output.cleaned_text)) = 150
    /\ Cardinality(WordSet(output.cleaned_text)) < 75
    /\ TrimmedLongEnough(output.cleaned_text)
    /\ EnoughCJK(output.cleaned_text)
    /\ EnoughLines(output.cleaned_text)
    /\ output.ret = NoArticle

\* C7 as stated: for the scenario text clean_article produces a record whose
\* text is the 80-character paragraph alone and whose meta.categories holds
\* the one category name.
C7_RecordProduced ==
    call = "returned" /\ case.kind = "scenario" =>
        /\ output.ret # NoArticle
        /\ output.ret.text = Paragraph80
        /\ output.ret.meta["categories"] = <<CategoryName>>

\* C7 amended: for the scenario text the cleaned text is the 80-character
\* paragraph alone, with no reference, category or infobox residue, and the
\* metadata extracted from the raw text holds the one category name; the
\* cleaned text being under the 100-character floor, clean_article returns
\* no record.
C7_CleanedButNoRecord ==
    call = "returned" /\ case.kind = "scenario" =>
        /\ output.cleaned_text = Paragraph80
        /\ output.ret = NoArticle
        /\ _extract_metadata("t_cn", input, "i_1", "s_1")["categories"]
              = <<CategoryName>>

\* a scenario text whose blocks stand inline, the reference first and the
\* 15-character paragraph before the 80-character one, has been cleaned
C7_Witness ==
    /\ call = "returned"
    /\ case.kind = "scenario"
    /\ case.sep = "none"
    /\ case.order[1] = "ref"
    /\ Position(case, "p15") < Position(case, "p80")
    /\ Len(input) > 80 + 15
    /\ output.cleaned_text = Paragraph80

(***************************************************************************)
(* clean_article on an article of three paragraphs that carries category   *)
(* links, and a reference or a comment:                                    *)
(*   links   how many [[Category:...]] links, each on a line of its own    *)
(*   pad     spaces around the name inside each link                       *)
(*   lower   [[category:...]] in place of [[Category:...]]                 *)
(*   place   the links stand before the text, after its first paragraph,   *)
(*           or after the text                                             *)
(*   markup  what else the text carries: nothing, a reference, a comment,  *)
(*           or a comment that holds a <ref> tag, with a reference after   *)
(*           the second paragraph                                          *)
(***************************************************************************)
MaxLinks == 8
MaxLinkPad == 1

LinkedCases ==
    [kind : {"linked"},
     links : 0..MaxLinks,
     pad : 0..MaxLinkPad,
     lower : BOOLEAN,
     place : {"before", "between", "after"},
     markup : {"none", "ref", "comment", "ref_in_comment"}]

\* the name of the i-th link: two ideographs, the first its own
LinkName(i) == <<22269 + i, 23478>>

\* [[Category: name ]]
LinkText(c, i) ==
    (IF c.lower
     THEN <<91, 91, 99, 97, 116, 101, 103, 111, 114, 121, 58>>
     ELSE <<91, 91, 67, 97, 116, 101, 103, 111, 114, 121, 58>>)
        \o Rep(32, c.pad) \o LinkName(i) \o Rep(32, c.pad) \o <<93, 93>>

RECURSIVE LinkLines(_, _)
LinkLines(c, i) ==
    IF i > c.links THEN <<>>
    ELSE LinkText(c, i) \o NL \o LinkLines(c, i + 1)

\* 40 ideographs and a full stop
Paragraph41(ch) == Rep(ch, 40) \o <<12290>>

REF_OPEN == <<60, 114, 101, 102, 62>>                      \* <ref>
REF_CLOSE == <<60, 47, 114, 101, 102, 62>>                 \* </ref>
COMMENT_OPEN == <<60, 33, 45, 45, 32>>                     \* <!--
COMMENT_CLOSE == <<32, 45, 45, 62>>                        \*  -->

LinkedArticleOf(c) ==
    LET after1 ==
            CASE c.markup = "none" -> <<>>
              [] c.markup = "ref" ->
                   REF_OPEN \o <<21442, 32771, 36164, 26009>> \o REF_CLOSE
              [] c.markup = "comment" ->
                   COMMENT_OPEN \o <<27880>> \o COMMENT_CLOSE
              [] c.markup = "ref_in_comment" ->
                   COMMENT_OPEN \o REF_OPEN \o COMMENT_CLOSE
        after2 ==
            IF c.markup = "ref_in_comment"
            THEN REF_OPEN \o <<26469, 28304>> \o REF_CLOSE
            ELSE <<>>
        links == LinkLines(c, 1)
    IN  (IF c.place = "before" THEN links ELSE <<>>)
            \o Paragraph41(20013) \o after1 \o NLNL
            \o (IF c.place = "between" THEN links \o NL ELSE <<>>)
            \o Paragraph41(22269) \o after2 \o NLNL
            \o Paragraph41(20154)
            \o (IF c.place = "after" THEN NLNL \o links ELSE <<>>)

InitLinked ==
    /\ InitParser
    /\ IdleRun
    /\ IdleValidate
    /\ case \in LinkedCases
    /\ input = LinkedArticleOf(case)
    /\ call = "pending"
    /\ output = NoArticle

\* cleaner.clean_article(title="中国", text=input, page_id="1",
\*                        timestamp="2025-01")
CleanLinkedArticle ==
    /\ call = "pending"
    /\ case.kind = "linked"
    /\ output' = clean_article_frame("t_cn", input, "i_1", "s_1")
    /\ call' = "returned"
    /\ UNCHANGED <<case, input, notCleanerVars>>

NextLinked == CleanLinkedArticle

SpecLinked == InitLinked /\ [][NextLinked]_vars

(***************************************************************************)
(* Properties of the metadata and of the order of the passes.              *)
(***************************************************************************)
\* C15: for an accepted article whose markup holds n category links,
\* meta.categories is the sequence of the first min(n, 5) link targets in
\* the order of the text, each without its surrounding whitespace; when
\* n = 0 meta has no categories key.
C15_FirstFiveCategories ==
    call = "returned" /\ case.kind = "linked" /\ output.ret # NoArticle =>
        LET meta == output.ret.meta
            n == IF case.links < 5 THEN case.links ELSE 5
        IN  IF case.links = 0
            THEN "categories" \notin DOMAIN meta
            ELSE /\ "categories" \in DOMAIN meta
                 /\ meta["categories"] = [i \in 1..n |-> LinkName(i)]

\* an accepted article with 8 padded category links, 5 of them in meta
C15_Witness ==
    /\ call = "returned"
    /\ case.kind = "linked"
    /\ case.links = 8
    /\ case.pad = 1
    /\ output.ret # NoArticle
    /\ Len(output.ret.meta["categories"]) = 5

\* C16: for every accepted article meta.char_count is the length of the
\* markup passed to clean_article, whatever the length of the cleaned text.
C16_CharCountOfMarkup ==
    call = "returned" /\ case.kind = "linked" /\ output.ret # NoArticle =>
        output.ret.meta["char_count"] = Len(input)

\* an accepted article whose cleaned text is shorter than its markup
C16_Witness ==
    /\ call = "returned"
    /\ case.kind = "linked"
    /\ case.markup = "ref"
    /\ case.links = 2
    /\ output.ret # NoArticle
    /\ Len(output.ret.text) < Len(input)
    /\ output.ret.meta["char_count"] = Len(input)

\* the order of the passes as stated: comments, then references, then the
\* other passes in the order of Passes
StatedOrder == <<2, 1>> \o [i \in 1..(Len(Passes) - 2) |-> i + 2]

RECURSIVE ApplyStated(_, _)
ApplyStated(text, n) ==
    IF n > Len(StatedOrder) THEN text
    ELSE Bind(Sub(Passes[StatedOrder[n]].name, Passes[StatedOrder[n]].repl,
                  text),
              LAMBDA t : ApplyStated(t, n + 1))

\* the cleaned text that the passes give when applied in the stated order
StatedClean(text) ==
    Bind(Split(ApplyStated(text, 1), NLNL), LAMBDA paragraphs :
        LET stripped == [k \in 1..Len(paragraphs) |-> Strip(paragraphs[k])]
        IN  Join(NLNL, SelectSeq(stripped, _is_valid_paragraph)))

\* C18: _clean_text_content applies its passes in the stated order, comment
\* blocks first, then reference blocks, then the rest: the cleaned text is
\* the one that the passes give in that order.
C18_StatedPassOrder ==
    call = "returned" /\ case.kind = "linked" =>
        output.cleaned_text = StatedClean(input)

(***************************************************************************)
(* main.py: WikipediaProcessor.process_dump, with formatter.write_record.  *)
(* The dump is a sequence of pages, each of one kind:                      *)
(*   "good"       yielded by the decoder, clean_article returns a record   *)
(*   "poor"       yielded by the decoder, clean_article returns None       *)
(*   "excluded"   well-formed, not yielded (_should_include_page is False) *)
(*   "malformed"  not well-formed XML: ET.iterparse raises ParseError      *)
(* json.dump hands the record to the file in RecordChunks writes; what is  *)
(* written goes to the file object's buffer and reaches the file when the  *)
(* with block closes it.  A line of out_file is [page, chunks, nl]: the    *)
(* page the record comes from, how many of its chunks the file holds, and  *)
(* whether the newline follows.                                            *)
(***************************************************************************)
MaxDump == 3
MaxArticlesArg == 2
RecordChunks == 2

PageKinds == {"good", "poor", "excluded", "malformed"}

RECURSIVE SeqsUpTo(_, _)
SeqsUpTo(S, n) ==
    IF n = 0 THEN {<<>>}
    ELSE SeqsUpTo(S, n - 1) \cup [1..n -> S]

InitRun ==
    /\ dump \in SeqsUpTo(PageKinds, MaxDump)
    /\ max_articles \in 0..MaxArticlesArg
    /\ pos = 0
    /\ pc = "pull"
    /\ cur = 0
    /\ processed_count = 0
    /\ written_count = 0
    /\ stats = [total_processed |-> 0, total_written |-> 0, total_skipped |-> 0]
    /\ out_file = <<>>
    /\ buf = NoBuffer
    /\ outcome = "running"
    /\ ret = 0

\* a decoder that is started afresh at the page it has just delivered
pending_with_current ==
    {j \in 1..Len(dump) : j >= pos /\ dump[j] # "excluded"}

\* the pages after pos that the decoder does not pass over in silence
Pending == {j \in (pos + 1)..Len(dump) : dump[j] # "excluded"}

\* for page_data in parser.parse_dump(): the generator runs to its next
\* yield, to the end of the stream, or into the ParseError of a malformed
\* page, which no handler of parse_dump catches and which ends the loop in
\* process_dump's "except Exception"
PullPage ==
    /\ pc = "pull"
    /\ IF Pending = {}
       THEN /\ pos' = Len(dump)
            /\ pc' = "finally"
            /\ outcome' = "exhausted"
            /\ UNCHANGED <<cur, processed_count>>
       ELSE LET j == SetMin(Pending)
            IN  /\ pos' = j
                /\ IF dump[j] = "malformed"
                   THEN /\ pc' = "finally"
                        /\ outcome' = "error"
                        /\ UNCHANGED <<cur, processed_count>>
                   ELSE /\ pc' = "clean"
                        /\ cur' = j
                        /\ processed_count' = processed_count + 1
                        /\ UNCHANGED outcome
    /\ UNCHANGED <<dump, max_articles, written_count, stats, out_file, buf, ret,
                   notRunVars>>

\* cleaned_article = self.cleaner.clean_article(...);  if cleaned_article:
CleanPage ==
    /\ pc = "clean"
    /\ pc' = IF dump[cur] = "good" THEN "validate" ELSE "check_max"
    /\ UNCHANGED <<dump, max_articles, pos, cur, processed_count, written_count,
                   stats, out_file, buf, outcome, ret,
                   notRunVars>>

\* write_record: self._validate_record(record), True for every record that
\* clean_article returns
ValidateRecord ==
    /\ pc = "validate"
    /\ pc' = "open"
    /\ UNCHANGED <<dump, max_articles, pos, cur, processed_count, written_count,
                   stats, out_file, buf, outcome, ret,
                   notRunVars>>

\* with open(self.output_file, 'a', encoding='utf-8') as f:
OpenFile ==
    /\ pc = "open"
    /\ buf' = [page |-> cur, chunks |-> 0, nl |-> FALSE]
    /\ pc' = "dump"
    /\ UNCHANGED <<dump, max_articles, pos, cur, processed_count, written_count,
                   stats, out_file, outcome, ret,
                   notRunVars>>

\* open raises OSError: "except Exception" counts the record as skipped and
\* write_record returns False
OpenFails ==
    /\ pc = "open"
    /\ stats' = [stats EXCEPT !.total_skipped = @ + 1]
    /\ pc' = "check_max"
    /\ UNCHANGED <<dump, max_articles, pos, cur, processed_count, written_count,
                   out_file, buf, outcome, ret,
                   notRunVars>>

\* json.dump(record, f, ...): one f.write(chunk) of its loop
WriteChunk ==
    /\ pc = "dump"
    /\ buf' = [buf EXCEPT !.chunks = @ + 1]
    /\ pc' = IF buf.chunks + 1 = RecordChunks THEN "newline" ELSE "dump"
    /\ UNCHANGED <<dump, max_articles, pos, cur, processed_count, written_count,
                   stats, out_file, outcome, ret,
                   notRunVars>>

\* f.write('\n')
WriteNewline ==
    /\ pc = "newline"
    /\ buf' = [buf EXCEPT !.nl = TRUE]
    /\ pc' = "close"
    /\ UNCHANGED <<dump, max_articles, pos, cur, processed_count, written_count,
                   stats, out_file, outcome, ret,
                   notRunVars>>

\* what closing the file appends to it
Flushed(file, b) ==
    IF b.chunks > 0 \/ b.nl THEN Append(file, b) ELSE file

\* the with block ends: f is closed and its buffer reaches the file
CloseFile ==
    /\ pc = "close"
    /\ out_file' = Flushed(out_file, buf)
    /\ buf' = NoBuffer
    /\ pc' = "stat"
    /\ UNCHANGED <<dump, max_articles, pos, cur, processed_count, written_count,
                   stats, outcome, ret,
                   notRunVars>>

\* self.stats["total_written"] += 1;  return True
CountStat ==
    /\ pc = "stat"
    /\ stats' = [stats EXCEPT !.total_written = @ + 1]
    /\ pc' = "count"
    /\ UNCHANGED <<dump, max_articles, pos, cur, processed_count, written_count,
                   out_file, buf, outcome, ret,
                   notRunVars>>

\* if self.formatter.write_record(cleaned_article): written_count += 1
CountWritten ==
    /\ pc = "count"
    /\ written_count' = written_count + 1
    /\ pc' = "check_max"
    /\ UNCHANGED <<dump, max_articles, pos, cur, processed_count, stats,
                   out_file, buf, outcome, ret,
                   notRunVars>>

\* if max_articles and written_count >= max_articles: break
CheckMax ==
    /\ pc = "check_max"
    /\ IF max_articles # 0 /\ written_count >= max_articles
       THEN pc' = "finally" /\ outcome' = "max"
       ELSE pc' = "pull" /\ UNCHANGED outcome
    /\ UNCHANGED <<dump, max_articles, pos, cur, processed_count, written_count,
                   stats, out_file, buf, ret,
                   notRunVars>>

InTry ==
    {"pull", "clean", "validate", "open", "dump", "newline", "close", "stat",
     "count", "check_max"}

InWith == {"dump", "newline", "close"}

\* KeyboardInterrupt raised at the current position of the try block: the
\* with block, when the position is inside it, closes the file on the way
\* out; "except Exception" of write_record does not catch it, "except
\* KeyboardInterrupt" of process_dump does
Interrupt ==
    /\ pc \in InTry
    /\ out_file' = IF pc \in InWith THEN Flushed(out_file, buf) ELSE out_file
    /\ buf' = NoBuffer
    /\ pc' = "finally"
    /\ outcome' = "interrupt"
    /\ UNCHANGED <<dump, max_articles, pos, cur, processed_count, written_count,
                   stats, ret,
                   notRunVars>>

\* finally: pbar.close(); the report is printed; return written_count
Report ==
    /\ pc = "finally"
    /\ ret' = written_count
    /\ pc' = "returned"
    /\ UNCHANGED <<dump, max_articles, pos, cur, processed_count, written_count,
                   stats, out_file, buf, outcome,
                   notRunVars>>

NextRun ==
    \/ PullPage
    \/ CleanPage
    \/ ValidateRecord
    \/ OpenFile
    \/ OpenFails
    \/ WriteChunk
    \/ WriteNewline
    \/ CloseFile
    \/ CountStat
    \/ CountWritten
    \/ CheckMax
    \/ Interrupt
    \/ Report

InitProcess ==
    InitParser /\ IdleCleaner /\ InitRun /\ IdleValidate /\ IdleMain

SpecRun == InitProcess /\ [][NextRun]_vars

(***************************************************************************)
(* Properties of process_dump.                                             *)
(***************************************************************************)
CompleteLine(l) == l.chunks = RecordChunks /\ l.nl

\* C8: after a run that a user interrupt ended, the output file holds only
\* complete newline-terminated records (the record in flight whole or not at
\* all), the written counters agree with the number of records in the file,
\* and process_dump has returned through its report.
C8_CancellationAtomic ==
    pc = "returned" /\ outcome = "interrupt" =>
        /\ \A i \in 1..Len(out_file) : CompleteLine(out_file[i])
        /\ written_count = Len(out_file)
        /\ stats.total_written = Len(out_file)
        /\ ret = written_count

\* the pages of the dump that qualify: well formed and not excluded
Qualifying == {j \in 1..Len(dump) : dump[j] \in {"good", "poor"}}

\* C9: a malformed page is never fatal: a run that neither an interrupt nor
\* the maximum ended has ended without an error, and every qualifying page
\* of the dump, those after a malformed page included, has been processed.
C9_MalformedNeverFatal ==
    pc = "returned" /\ outcome \notin {"interrupt", "max"} =>
        /\ outcome = "exhausted"
        /\ processed_count = Cardinality(Qualifying)

\* the positions of process_dump that lie inside a call of write_record
InWriteRecord == {"validate", "open", "dump", "newline", "close", "stat"}

\* a step taken inside a call of write_record either stays inside it and
\* leaves the counters alone, or returns True with total_written one
\* higher, or returns False with total_skipped one higher
WriteRecordStep ==
    pc \in InWriteRecord =>
        \/ /\ pc' \in InWriteRecord
           /\ stats' = stats
        \/ /\ pc' = "count"
           /\ stats' = [stats EXCEPT !.total_written = @ + 1]
        \/ /\ pc' = "check_max"
           /\ stats' = [stats EXCEPT !.total_skipped = @ + 1]

\* C12: every call of write_record returns normally and increments exactly
\* one of total_written and total_skipped by one (total_written iff it
\* returns True); nothing leaves the call in another way.
C12_WriteRecordCounts == [][WriteRecordStep]_vars

\* the good pages among the first n pages of the dump
GoodUpTo(n) == {j \in 1..n : dump[j] = "good"}

C19_NeverMoreThanMax ==
    /\ Len(out_file) <= max_articles
    /\ written_count <= max_articles
    /\ pc \in {"clean"} \cup InWriteRecord => written_count < max_articles

\* print_stats: total_written / max(total_processed, 1) * 100, rounded down
success_rate(st) ==
    (st.total_written * 100)
        \div (IF st.total_processed > 1 THEN st.total_processed ELSE 1)

\* C20: in the statistics reported after a run of process_dump,
\* total_written + total_skipped does not exceed total_processed,
\* total_processed is the number of articles the run pulled from the
\* decoder, and the success rate is at most 100%.
C20_StatsConsistent ==
    pc = "returned" =>
        /\ stats.total_written + stats.total_skipped <= stats.total_processed
        /\ stats.total_processed = processed_count
        /\ success_rate(stats) <= 100

(***************************************************************************)
(* cleaner.py: the whitespace clean-up of _clean_text_content (lines 112   *)
(* and 113), applied to a string of spaces, newlines and letters, and then *)
(* to its own result.                                                      *)
(***************************************************************************)
MaxWs == 7

WsAlphabet == {32, 10, 97}

\* text = self.patterns['multiple_spaces'].sub(' ', text)
\* text = self.patterns['multiple_newlines'].sub('\n\n', text)
clean_up_whitespace(text) ==
    Bind(Sub("multiple_spaces", SPACE, text), LAMBDA t :
        Sub("multiple_newlines", NLNL, t))

InitWs ==
    /\ InitParser
    /\ IdleRun
    /\ IdleValidate
    /\ case = [kind |-> "ws"]
    /\ input \in SeqsUpTo(WsAlphabet, MaxWs)
    /\ call = "pending"
    /\ output = NoArticle

CollapseOnce ==
    /\ call = "pending"
    /\ case.kind = "ws"
    /\ output' = [once |-> clean_up_whitespace(input)]
    /\ call' = "once"
    /\ UNCHANGED <<case, input, notCleanerVars>>

CollapseAgain ==
    /\ call = "once"
    /\ case.kind = "ws"
    /\ output' = [once |-> output.once,
                  twice |-> clean_up_whitespace(output.once)]
    /\ call' = "returned"
    /\ UNCHANGED <<case, input, notCleanerVars>>

NextWs ==
    \/ CollapseOnce
    \/ CollapseAgain

SpecWs == InitWs /\ [][NextWs]_vars

\* C17: whitespace collapsing is idempotent: applied to its own result it
\* gives that result again.
C17_CollapseIdempotent ==
    call = "returned" /\ case.kind = "ws" => output.twice = output.once

\* three spaces followed by four newlines have been collapsed to one space
\* and two newlines, and collapsed again
C17_Witness ==
    /\ call = "returned"
    /\ case.kind = "ws"
    /\ input = <<32, 32, 32, 10, 10, 10, 10>>
    /\ output.once = <<32, 10, 10>>

(***************************************************************************)
(* formatter.py: JSONLFormatter.validate_output_file on a file of file_len *)
(* lines.  Each line is of one kind:                                       *)
(*   "valid"      parses as JSON, _validate_record returns True            *)
(*   "badschema"  parses as JSON, _validate_record returns False           *)
(*   "badjson"    json.loads raises JSONDecodeError                        *)
(*   "scalar"     parses as a JSON number or null: the test                *)
(*                'text' not in record  of _validate_record raises         *)
(*                TypeError, which validate_output_file does not catch     *)
(***************************************************************************)
MaxFileLines == 11
MaxErrors == 10

LineKinds == {"valid", "badschema", "badjson", "scalar"}

TRUNCATED == [line |-> 0, what |-> "truncated"]

InitValidate ==
    /\ file_len \in 0..MaxFileLines
    /\ vpc = "scan"
    /\ line_num = 0
    /\ validation_stats = [valid |-> TRUE, total_lines |-> 0,
                           valid_records |-> 0, invalid_records |-> 0,
                           errors |-> <<>>]

\* the marker appended one error late
limit_errors_late(st) ==
    IF Len(st.errors) > MaxErrors
    THEN [stats |-> [st EXCEPT !.errors = Append(@, TRUNCATED)], stop |-> TRUE]
    ELSE [stats |-> st, stop |-> FALSE]

\* if len(validation_stats["errors"]) >= 10: the marker is appended and the
\* loop left (stop)
limit_errors(st) ==
    IF Len(st.errors) >= MaxErrors
    THEN [stats |-> [st EXCEPT !.errors = Append(@, TRUNCATED)], stop |-> TRUE]
    ELSE [stats |-> st, stop |-> FALSE]

\* validation_stats after the try statement of the loop body, for a line of
\* the kind k that does not raise out of it
Tally(st, n, k) ==
    CASE k = "valid" ->
           [st EXCEPT !.total_lines = @ + 1, !.valid_records = @ + 1]
      [] k = "badschema" ->
           [st EXCEPT !.total_lines = @ + 1, !.invalid_records = @ + 1,
                      !.errors = Append(@, [line |-> n, what |-> "format"])]
      [] k = "badjson" ->
           [st EXCEPT !.total_lines = @ + 1, !.invalid_records = @ + 1,
                      !.errors = Append(@, [line |-> n, what |-> "json"])]

\* one iteration of  for line_num, line in enumerate(f, 1)  on a line of
\* the kind k
ScanLine(k) ==
    /\ vpc = "scan"
    /\ line_num < file_len
    /\ line_num' = line_num + 1
    /\ IF k = "scalar"
       THEN /\ validation_stats' =
                  [validation_stats EXCEPT !.total_lines = @ + 1]
            /\ vpc' = "raised"
       ELSE LET r == limit_errors(Tally(validation_stats, line_num + 1, k))
            IN  /\ validation_stats' = r.stats
                /\ vpc' = IF r.stop THEN "break" ELSE "scan"
    /\ UNCHANGED <<file_len, notValidateVars>>

\* the loop has ended (end of file, or break): the valid flag is set and
\* validation_stats returned
FinishValidate ==
    /\ vpc \in {"scan", "break"}
    /\ vpc = "scan" => line_num = file_len
    /\ validation_stats' =
          [validation_stats EXCEPT
              !.valid = IF validation_stats.invalid_records > 0 THEN FALSE ELSE @]
    /\ vpc' = "returned"
    /\ UNCHANGED <<file_len, line_num, notValidateVars>>

NextValidate ==
    \/ \E k \in LineKinds : ScanLine(k)
    \/ FinishValidate

InitValidation == InitParser /\ IdleCleaner /\ IdleRun /\ InitValidate

SpecValidate == InitValidation /\ [][NextValidate]_vars

(***************************************************************************)
(* Properties of validate_output_file.                                     *)
(***************************************************************************)
\* C10 as stated: the error list returned by validate_output_file has at
\* most 10 entries.
C10_AtMostTenEntries ==
    vpc = "returned" => Len(validation_stats.errors) <= 10

\* C10 amended: the error list returned by validate_output_file has at most
\* 11 entries: at most 10 error messages, one per invalid line scanned, and,
\* when there are 10 of them, the truncation marker as the last entry.
C10_TenErrorsAndMarker ==
    vpc = "returned" =>
        LET errors == validation_stats.errors
            messages == {i \in 1..Len(errors) : errors[i] # TRUNCATED}
        IN  /\ Len(errors) <= 11
            /\ Cardinality(messages) <= 10
            /\ Cardinality(messages) = validation_stats.invalid_records
            /\ \A i \in 1..Len(errors) :
                  errors[i] = TRUNCATED <=> (i = 11)
            /\ Len(errors) >= 10 => Len(errors) = 11

\* a file of more than 10 lines whose first 10 invalid lines have been
\* reported
C10_Witness ==
    /\ vpc = "returned"
    /\ file_len > 10
    /\ validation_stats.invalid_records = 10
    /\ Len(validation_stats.errors) = 11

\* C11: validate_output_file scans every line of the file: on return
\* total_lines is the number of lines of the file, every line has been
\* reached, and valid_records + invalid_records = total_lines, however many
\* invalid lines precede a line.
C11_EveryLineScanned ==
    vpc = "returned" =>
        /\ line_num = file_len
        /\ validation_stats.total_lines = file_len
        /\ validation_stats.valid_records + validation_stats.invalid_records
              = validation_stats.total_lines


\* C22: validate_output_file never raises: every line it reads, a line that
\* parses as JSON but is no record object included, is classified as valid
\* or as invalid, and the scan goes on.
C22_NeverRaises ==
    /\ vpc # "raised"
    /\ validation_stats.valid_records + validation_stats.invalid_records
          = validation_stats.total_lines

(***************************************************************************)
(* main.py: main, run without --download.  args.process is None when the   *)
(* option is not given, or the str given: '', the path of no file, or the  *)
(* path of the dump file.  The run of process_dump inside it is the one    *)
(* modelled above.                                                         *)
(***************************************************************************)
MISSING_PATH == "data/missing.xml.bz2"
DUMP_PATH == "data/zhwiki-pages-articles.xml.bz2"

ProcessArgs == {NoneVal, EmptyStr, MISSING_PATH, DUMP_PATH}

\* os.path.exists(path)
exists(path) == path = DUMP_PATH

\* main up to "if args.process:"; a dump file that is never opened is left
\* out of the state
InitMainRun ==
    /\ args_process \in ProcessArgs
    /\ exit_status = 0
    /\ dump \in IF exists(args_process)
                THEN SeqsUpTo(PageKinds, MaxDump)
                ELSE {<<>>}
    /\ max_articles \in 0..MaxArticlesArg
    /\ pos = 0
    /\ pc = "main"
    /\ cur = 0
    /\ processed_count = 0
    /\ written_count = 0
    /\ stats = [total_processed |-> 0, total_written |-> 0, total_skipped |-> 0]
    /\ out_file = <<>>
    /\ buf = NoBuffer
    /\ outcome = "running"
    /\ ret = 0

\* if args.process: if not os.path.exists(args.process): sys.exit(1);
\* written_count = processor.process_dump(...).  A falsy args.process (None
\* or '') skips the block and main ends after printing the help.
MainProcess ==
    /\ pc = "main"
    /\ IF args_process \in {NoneVal, EmptyStr}
       THEN pc' = "exited" /\ UNCHANGED exit_status
       ELSE IF ~exists(args_process)
            THEN pc' = "exited" /\ exit_status' = 1
            ELSE pc' = "pull" /\ UNCHANGED exit_status
    /\ UNCHANGED <<dump, max_articles, pos, cur, processed_count, written_count,
                   stats, out_file, buf, outcome, ret, args_process,
                   parserVars, cleanerVars, validateVars>>

\* if written_count > 0: validate_output, create_sample, print_final_stats
\* else: print("No articles were processed successfully."); sys.exit(1)
MainFinish ==
    /\ pc = "returned"
    /\ IF ret > 0
       THEN /\ pc' = "validate_output"
            /\ file_len' = Len(out_file)
            /\ vpc' = "scan"
            /\ line_num' = 0
            /\ validation_stats' = [valid |-> TRUE, total_lines |-> 0,
                                    valid_records |-> 0, invalid_records |-> 0,
                                    errors |-> <<>>]
            /\ UNCHANGED exit_status
       ELSE /\ pc' = "exited"
            /\ exit_status' = 1
            /\ UNCHANGED validateVars
    /\ UNCHANGED <<dump, max_articles, pos, cur, processed_count, written_count,
                   stats, out_file, buf, outcome, ret, args_process,
                   parserVars, cleanerVars>>

\* what validate_output_file finds in a line of the output file: all the
\* chunks of a record parse as the record, with or without the newline;
\* fewer chunks are the beginning of a JSON object, which does not parse
LineKindOf(l) == IF l.chunks = RecordChunks THEN "valid" ELSE "badjson"

\* processor.validate_output(): validate_output_file reads the next line of
\* the output file
ValidateOutputLine ==
    /\ pc = "validate_output"
    /\ line_num < file_len
    /\ ScanLine(LineKindOf(out_file[line_num + 1]))

\* validate_output_file returns
ValidateOutputDone ==
    /\ pc = "validate_output"
    /\ FinishValidate

\* validate_output prints the result; create_sample and print_final_stats
\* follow, and main ends with status 0
MainExit ==
    /\ pc = "validate_output"
    /\ vpc = "returned"
    /\ pc' = "exited"
    /\ UNCHANGED <<dump, max_articles, pos, cur, processed_count, written_count,
                   stats, out_file, buf, outcome, ret, mainVars,
                   parserVars, cleanerVars, validateVars>>

NextMain ==
    \/ MainProcess
    \/ NextRun
    \/ MainFinish
    \/ ValidateOutputLine
    \/ ValidateOutputDone
    \/ MainExit

InitMain == InitParser /\ IdleCleaner /\ InitMainRun /\ IdleValidate

SpecMain == InitMain /\ [][NextMain]_vars

(***************************************************************************)
(* Properties of main.                                                     *)
(***************************************************************************)
\* C13: main, asked to process an archive, exits with a non-zero status
\* whenever the input path does not exist or the run has written no record
\* to the output file; it never exits with status 0 and zero output.
C13_NonZeroExit ==
    pc = "exited" /\ args_process # NoneVal =>
        \/ exit_status # 0
        \/ /\ exists(args_process)
           /\ \E i \in 1..Len(out_file) : CompleteLine(out_file[i])

\* a step of main and of the run inside it: total_skipped grows only where
\* writing raises, never where write_record validates the record, and when
\* validate_output_file returns for the file the run has produced the file
\* is valid
OutputValidStep ==
    /\ stats'.total_skipped # stats.total_skipped => pc \in InWriteRecord \ {"validate"}
    /\ pc = "validate_output" /\ vpc' = "returned" =>
          /\ validation_stats'.valid
          /\ validation_stats'.invalid_records = 0

\* C21: the records that clean_article returns pass _validate_record, so in
\* process_dump write_record rejects no record on validation,
\* total_skipped grows only through write exceptions, and the output file of
\* a run that started from an empty file validates as valid.
C21_OutputValidates == [][OutputValidStep]_vars

=============================================================================
